---- MODULE Spec2Model ----
(***************************************************************************)
(* A state-machine model of the photo studio view (src/App.tsx): the       *)
(* session state held by the App component, the mask canvas with its undo  *)
(* history, the asynchronous image loads of the drawing effect and the     *)
(* asynchronous edit request to the external edit service.                 *)
(*                                                                         *)
(* Every React event handler is one action: React flushes the state        *)
(* updates of a handler before the next event is dispatched, so a handler  *)
(* always reads the state left by the previous one.  What runs later (an   *)
(* image's onload, the continuation of handleGeminiEdit after an await) is *)
(* an action of its own that works on the values its closure captured.     *)
(*                                                                         *)
(* Not modelled: brushSize, bgTab, isHoveringCanvas and the brush cursor   *)
(* (they only style the page; the re-render they cause is RerenderOnly).   *)
(***************************************************************************)
EXTENDS Integers, Sequences, FiniteSets, TLC

VARIABLES
  originalImage,    \* App.tsx:31  the uploaded File, or Null
  currentImageUrl,  \* App.tsx:32  the URL of the Image Surface, or Null
  mode,             \* App.tsx:33  EditMode
  processing,       \* App.tsx:34  processing.isProcessing
  promptInput,      \* App.tsx:37
  isDrawing,        \* App.tsx:41  Stroke Engine: TRUE = Drawing
  hasMask,          \* App.tsx:42  the has-content flag
  logoState,        \* App.tsx:55  Logo Placement
  maskHistory,      \* App.tsx:49  maskHistoryRef.current
  maskCanvas,       \* App.tsx:65  the Mask Buffer: size and marked pixels
  canvas,           \* App.tsx:64  the base display surface
  undoDisabled,     \* App.tsx:507 the Undo button's disabled attribute as last rendered
  loads,            \* App.tsx:99,119 images whose onload has not run yet
  requests,         \* App.tsx:203 calls of handleGeminiEdit suspended at an await
  pushed,           \* history bookkeeping: the snapshots pushed since the history was last empty
  undoRun,          \* history bookkeeping: undos in a row since the history was full
  pointer,          \* App.tsx:294 the last pointer-down mapped by getCanvasCoordinates
  outdated,         \* request bookkeeping: an upload or a reset ran while a request was outstanding
  strokeBegun,      \* stroke bookkeeping: a pointer-down pushed a snapshot and no up, leave, clear or mode change followed
  ev                \* the handler or callback that ran last, and how it ended

vars == <<originalImage, currentImageUrl, mode, processing, promptInput,
          isDrawing, hasMask, logoState, maskHistory, maskCanvas, canvas,
          undoDisabled, loads, requests, pushed, undoRun, pointer, strokeBegun, outdated, ev>>

(***************************************************************************)
(* Values                                                                  *)
(***************************************************************************)
Null == "null"

IDLE == "IDLE"
REMOVE_OBJECT == "REMOVE_OBJECT"
CHANGE_BACKGROUND == "CHANGE_BACKGROUND"
ADD_LOGO == "ADD_LOGO"
MAKE_HD == "MAKE_HD"
EditMode == {IDLE, REMOVE_OBJECT, CHANGE_BACKGROUND, ADD_LOGO, MAKE_HD}

\* Files the user can pick, results the edit service can return, logo files.
Files == {"f1", "f2", "f3"}
Results == {"r1", "r2"}
LogoFiles == {"l1", "l2", "l3"}

\* The pixel size of a decoded image (baseImg.width, baseImg.height).
ImageSize(url) ==
  IF url \in {"f1", "r1"} THEN [w |-> 100, h |-> 100]
  ELSE IF url = "f3" THEN [w |-> 1000, h |-> 500]
  ELSE [w |-> 200, h |-> 100]

\* The pixel size of a decoded logo (logoImg.width, logoImg.height): a
\* square one, a wide one, a tall one.
LogoSize(url) ==
  IF url = "l1" THEN [w |-> 100, h |-> 100]
  ELSE IF url = "l2" THEN [w |-> 200, h |-> 100]
  ELSE [w |-> 100, h |-> 300]

\* A canvas element before anything sized it: the HTML default bitmap.
DefaultCanvasSize == [w |-> 300, h |-> 150]

\* The native pixels a pointer position can map to in this model.
SamplePixels == {<<50, 50>>, <<150, 50>>}
PixelsOf(size) == {p \in SamplePixels : p[1] <= size.w /\ p[2] <= size.h}

\* Prompt texts: empty, whitespace only, a description.
Prompts == {"", " ", "beach"}
\* String.prototype.trim on those texts.
Trim(s) == IF s = " " THEN "" ELSE s

\* Slider positions tried (x and y in [0,100], scale in [5,80]).
XValues == {50, 100}
YValues == {50, 0}
ScaleValues == {20, 80}

InitialLogoState == [file |-> Null, previewUrl |-> Null, x |-> 50, y |-> 50, scale |-> 20]

(***************************************************************************)
(* Numbers.  The arithmetic of the placement and of the coordinate mapping *)
(* is carried out on exact fractions n/d in lowest terms with d > 0.       *)
(***************************************************************************)
Abs(a) == IF a < 0 THEN 0 - a ELSE a

RECURSIVE Gcd(_, _)
Gcd(a, b) == IF b = 0 THEN a ELSE Gcd(b, a % b)

Rat(n, d) ==
  LET g == Gcd(Abs(n), Abs(d))
      sgn == IF d < 0 THEN 0 - 1 ELSE 1
  IN  [n |-> sgn * (n \div g), d |-> sgn * (d \div g)]

Num(a) == [n |-> a, d |-> 1]
RAdd(a, b) == Rat(a.n * b.d + b.n * a.d, a.d * b.d)
RSub(a, b) == Rat(a.n * b.d - b.n * a.d, a.d * b.d)
RMul(a, b) == Rat(a.n * b.n, a.d * b.d)
RDiv(a, b) == Rat(a.n * b.d, a.d * b.n)

\* The capacity of the undo history.
HistoryLimit == 10

(***************************************************************************)
(* Bounds of the model                                                     *)
(***************************************************************************)
MaxLoads == 1       \* image loads pending at once
MaxHistory == 1     \* snapshots held while the whole session is explored (Spec)
MaxPushed == 12     \* snapshots pushed in a row from an empty history (HistorySpec)
MaxStale == 2       \* snapshots held while images of two sizes are explored (UndoSpec)
MaxStrokes == 4     \* snapshots held while whole strokes are explored (StrokeSpec)
MaxRace == 2        \* image loads pending at once while their order is explored (RaceSpec)

(***************************************************************************)
(* Canvas primitives                                                       *)
(***************************************************************************)
\* canvas.width = w; canvas.height = h: sizing a canvas clears its bitmap.
Resized(size) == [size |-> size, px |-> {}]

\* ctx.clearRect(0, 0, width, height)
ClearRect(mc) == [mc EXCEPT !.px = {}]

\* ctx.getImageData(0, 0, width, height)
GetImageData(mc) == [size |-> mc.size, px |-> mc.px]

\* ctx.putImageData(data, 0, 0): the pixels of data's rectangle that lie on
\* the canvas are overwritten, the others stay.
PutImageData(mc, data) ==
  [mc EXCEPT !.px = {p \in mc.px : p \notin PixelsOf(data.size)}
                    \cup {p \in data.px : p \in PixelsOf(mc.size)}]

\* ctx.lineTo(x, y); ctx.stroke(): the segment's pixels become marked.
Stroke(mc, p) == [mc EXCEPT !.px = mc.px \cup {p}]

\* The canvases are mounted once an image URL is set (App.tsx:725,740).
Mounted == currentImageUrl # Null

\* Whether a stroke is open once the handler labelled label has run: a
\* pointer-down that pushed a snapshot opens one; a pointer-up or
\* pointer-leave, a clear and a mode change close it.
Since(label) ==
  IF label = "down" THEN TRUE
  ELSE IF label \in {"up", "upIgnored", "clear"} THEN FALSE
  ELSE IF label = "mode" /\ mode' # mode THEN FALSE
  ELSE strokeBegun

\* Whether, once the handler labelled label has run, a request is
\* outstanding that was submitted before the last upload or reset.
Overtaken(label) ==
  IF requests' = <<>> THEN FALSE
  ELSE IF label \in {"upload", "reset"} THEN TRUE
  ELSE outdated

(***************************************************************************)
(* Rendering                                                               *)
(***************************************************************************)
ReactState == <<originalImage, currentImageUrl, mode, processing, promptInput,
                isDrawing, hasMask, logoState>>

\* The Undo button's disabled attribute is computed from the history ref
\* when the component renders, and the component renders only when a state
\* setter stored a new value (forced: a setter was given a fresh object).
Render(forced) ==
  undoDisabled' = IF forced \/ ReactState' # ReactState
                  THEN Len(maskHistory') = 0
                  ELSE undoDisabled

\* The two effects that follow a render.  mc is the Mask Buffer as the
\* handler left it.
\*  - "Sync mask canvas size" (deps: currentImageUrl) sizes the mask canvas
\*    to the base canvas;
\*  - "Main Image Drawing" (deps: currentImageUrl, logoState) starts loading
\*    the base image; its onload runs later.  dep is the dependency whose change
\*    made the effect run.
Effects(urlChanged, logoChanged, mc) ==
  /\ maskCanvas' = IF urlChanged /\ currentImageUrl' # Null
                   THEN Resized(canvas.size) ELSE mc
  /\ loads' = IF (urlChanged \/ logoChanged) /\ currentImageUrl' # Null
              THEN Append(loads, [kind |-> "base", img |-> currentImageUrl',
                                  base |-> ImageSize(currentImageUrl'),
                                  logo |-> logoState',
                                  dep |-> IF urlChanged THEN "currentImageUrl"
                                          ELSE "logoState"])
              ELSE loads

(***************************************************************************)
(* Mask Buffer and history (App.tsx:156-201)                               *)
(***************************************************************************)
\* clearMask: nothing happens while the mask canvas is not mounted.
clearMask ==
  IF Mounted
  THEN [mc |-> ClearRect(maskCanvas), hasMask |-> FALSE, history |-> <<>>,
        pushed |-> [ok |-> TRUE, seq |-> <<>>], undoRun |-> -1]
  ELSE [mc |-> maskCanvas, hasMask |-> hasMask, history |-> maskHistory,
        pushed |-> pushed, undoRun |-> undoRun]

\* Mutants of saveMaskState: the limit is never applied; the newest
\* snapshot is dropped instead of the oldest.
saveMaskStateNoShift(history, mc) == Append(history, GetImageData(mc))

saveMaskStateDropsNewest(history, mc) ==
  LET added == Append(history, GetImageData(mc))
  IN  IF Len(added) > HistoryLimit THEN SubSeq(added, 1, HistoryLimit) ELSE added

\* saveMaskState: push a snapshot, then drop the oldest one beyond the limit.
saveMaskState(history, mc) ==
  LET added == Append(history, GetImageData(mc))
  IN  IF Len(added) > HistoryLimit THEN Tail(added) ELSE added

\* maskHistoryRef.current.pop()
Pop(history) == SubSeq(history, 1, Len(history) - 1)

\* The run of undos since the history was full, after a mask operation
\* other than undo left the history as given.
RunAfter(history) == IF Len(history) = HistoryLimit THEN 0 ELSE -1

(***************************************************************************)
(* Handlers of the sidebar                                                 *)
(***************************************************************************)
\* handleImageUpload: the file input is always rendered (App.tsx:405,737).
handleImageUpload(file) ==
  LET c == clearMask IN
  /\ originalImage' = file
  /\ currentImageUrl' = file
  /\ mode' = IDLE
  /\ promptInput' = ""
  /\ logoState' = InitialLogoState
  /\ hasMask' = c.hasMask
  /\ maskHistory' = c.history
  /\ pushed' = c.pushed
  /\ undoRun' = c.undoRun
  /\ UNCHANGED <<processing, isDrawing, canvas, requests>>
  /\ Effects(TRUE, TRUE, c.mc)
  /\ Render(TRUE)
  /\ UNCHANGED pointer
  /\ ev' = "upload"
  /\ strokeBegun' = Since(ev')
  /\ outdated' = Overtaken(ev')

\* Mutant of resetImage: the mask is left as it is.
resetImageKeepsMask ==
  /\ Mounted
  /\ IF originalImage # Null
     THEN /\ currentImageUrl' = originalImage
          /\ logoState' = [logoState EXCEPT !.previewUrl = Null]
          /\ mode' = IDLE
          /\ UNCHANGED <<originalImage, processing, promptInput, isDrawing, canvas,
                         requests, hasMask, maskHistory, pushed, undoRun>>
          /\ Effects(TRUE, TRUE, maskCanvas)
          /\ Render(TRUE)
     ELSE UNCHANGED <<originalImage, currentImageUrl, mode, processing, promptInput,
                      isDrawing, hasMask, logoState, maskHistory, maskCanvas, canvas,
                      undoDisabled, loads, requests, pushed, undoRun>>
  /\ UNCHANGED pointer
  /\ ev' = "reset"
  /\ strokeBegun' = Since(ev')
  /\ outdated' = Overtaken(ev')

\* resetImage: the Reset button is rendered once an image is there (App.tsx:700).
resetImage ==
  /\ Mounted
  /\ IF originalImage # Null
     THEN LET c == clearMask IN
          /\ currentImageUrl' = originalImage
          /\ logoState' = [logoState EXCEPT !.previewUrl = Null]
          /\ mode' = IDLE
          /\ hasMask' = c.hasMask
          /\ maskHistory' = c.history
          /\ pushed' = c.pushed
          /\ undoRun' = c.undoRun
          /\ UNCHANGED <<originalImage, processing, promptInput, isDrawing, canvas, requests>>
          /\ Effects(TRUE, TRUE, c.mc)
          /\ Render(TRUE)
     ELSE UNCHANGED <<originalImage, currentImageUrl, mode, processing, promptInput,
                      isDrawing, hasMask, logoState, maskHistory, maskCanvas, canvas,
                      undoDisabled, loads, requests, pushed, undoRun>>
  /\ UNCHANGED pointer
  /\ ev' = "reset"
  /\ strokeBegun' = Since(ev')
  /\ outdated' = Overtaken(ev')

\* The four tool buttons (App.tsx:416-477): all but Add Logo empty the prompt.
setModeButton(m) ==
  /\ Mounted
  /\ m \in EditMode \ {IDLE}
  /\ mode' = m
  /\ promptInput' = IF m = ADD_LOGO THEN promptInput ELSE ""
  /\ UNCHANGED <<originalImage, currentImageUrl, processing, isDrawing, hasMask,
                 logoState, maskHistory, maskCanvas, canvas, loads, requests,
                 pushed, undoRun>>
  /\ Render(FALSE)
  /\ UNCHANGED pointer
  /\ ev' = "mode"
  /\ strokeBegun' = Since(ev')
  /\ outdated' = Overtaken(ev')

\* Colour, scene and custom prompt inputs of the background panel (App.tsx:557-599).
setPromptInput(text) ==
  /\ Mounted
  /\ mode = CHANGE_BACKGROUND
  /\ promptInput' = text
  /\ UNCHANGED <<originalImage, currentImageUrl, mode, processing, isDrawing, hasMask,
                 logoState, maskHistory, maskCanvas, canvas, loads, requests,
                 pushed, undoRun>>
  /\ Render(FALSE)
  /\ UNCHANGED pointer
  /\ ev' = "prompt"
  /\ strokeBegun' = Since(ev')
  /\ outdated' = Overtaken(ev')

\* Every setLogoState stores a fresh object: the component renders and the
\* drawing effect runs again.
SetLogoState(next, label) ==
  /\ logoState' = next
  /\ UNCHANGED <<originalImage, currentImageUrl, mode, processing, promptInput,
                 isDrawing, hasMask, maskHistory, canvas, requests, pushed, undoRun>>
  /\ Effects(FALSE, TRUE, maskCanvas)
  /\ Render(TRUE)
  /\ UNCHANGED pointer
  /\ ev' = label
  /\ strokeBegun' = Since(ev')
  /\ outdated' = Overtaken(ev')

\* handleLogoUpload: the input is rendered in logo mode while no logo is shown.
handleLogoUpload(file) ==
  /\ Mounted /\ mode = ADD_LOGO /\ logoState.previewUrl = Null
  /\ SetLogoState([logoState EXCEPT !.file = file, !.previewUrl = file], "logoUpload")

\* The three placement sliders (App.tsx:653-680), rendered while a logo is shown.
setLogoX(v) ==
  /\ Mounted /\ mode = ADD_LOGO /\ logoState.previewUrl # Null
  /\ SetLogoState([logoState EXCEPT !.x = v], "slider")

setLogoY(v) ==
  /\ Mounted /\ mode = ADD_LOGO /\ logoState.previewUrl # Null
  /\ SetLogoState([logoState EXCEPT !.y = v], "slider")

setLogoScale(v) ==
  /\ Mounted /\ mode = ADD_LOGO /\ logoState.previewUrl # Null
  /\ SetLogoState([logoState EXCEPT !.scale = v], "slider")

\* Mutant of removeLogo: the file is dropped, the preview URL is kept.
removeLogoKeepsSource ==
  /\ Mounted /\ mode = ADD_LOGO /\ logoState.previewUrl # Null
  /\ SetLogoState([logoState EXCEPT !.file = Null], "removeLogo")

\* Remove Logo (App.tsx:683-688)
removeLogo ==
  /\ Mounted /\ mode = ADD_LOGO /\ logoState.previewUrl # Null
  /\ SetLogoState([logoState EXCEPT !.previewUrl = Null], "removeLogo")

\* A render caused by state this model leaves out (hovering the canvas,
\* the brush slider, the background tab): App.tsx:499,538,744.
RerenderOnly ==
  /\ Mounted
  /\ undoDisabled' = (Len(maskHistory) = 0)
  /\ UNCHANGED <<originalImage, currentImageUrl, mode, processing, promptInput,
                 isDrawing, hasMask, logoState, maskHistory, maskCanvas, canvas,
                 loads, requests, pushed, undoRun>>
  /\ UNCHANGED pointer
  /\ ev' = "render"
  /\ strokeBegun' = Since(ev')
  /\ outdated' = Overtaken(ev')

(***************************************************************************)
(* Stroke Engine: pointer and touch handlers of the mask canvas            *)
(* (App.tsx:317-356, bound at App.tsx:754-760)                             *)
(***************************************************************************)
\* Mutant of startDrawing: the mode is not looked at.
startDrawingAnyMode ==
  /\ Mounted
  /\ ~processing
  /\ UNCHANGED <<originalImage, currentImageUrl, mode, processing, promptInput, hasMask,
                 logoState, maskCanvas, canvas, loads, requests>>
  /\ maskHistory' = saveMaskState(maskHistory, maskCanvas)
  /\ isDrawing' = TRUE
  /\ pushed' = IF pushed.ok
               THEN [pushed EXCEPT !.seq = Append(@, GetImageData(maskCanvas))]
               ELSE pushed
  /\ undoRun' = RunAfter(maskHistory')
  /\ Render(FALSE)
  /\ UNCHANGED pointer
  /\ ev' = IF mode # REMOVE_OBJECT THEN "downIgnored" ELSE "down"
  /\ strokeBegun' = Since(ev')
  /\ outdated' = Overtaken(ev')

\* Mutant of getCanvasCoordinates: the rectangle's offset is not subtracted.
getCanvasCoordinatesNoOffset(rect, native, e) ==
  LET scaleX == RDiv(Num(native.w), rect.width)
      scaleY == RDiv(Num(native.h), rect.height)
      client == IF e.kind = "touch" THEN e.touches[1] ELSE e
  IN  [x |-> RMul(client.clientX, scaleX),
       y |-> RMul(client.clientY, scaleY)]

\* getCanvasCoordinates (App.tsx:294-315): the native coordinates of a mouse
\* or touch event e on a canvas of native size native that is displayed in
\* the rectangle rect (getBoundingClientRect).  A touch event is read at its
\* first touch point.
getCanvasCoordinates(rect, native, e) ==
  LET scaleX == RDiv(Num(native.w), rect.width)
      scaleY == RDiv(Num(native.h), rect.height)
      client == IF e.kind = "touch" THEN e.touches[1] ELSE e
  IN  [x |-> RMul(RSub(client.clientX, rect.left), scaleX),
       y |-> RMul(RSub(client.clientY, rect.top), scaleY)]

\* startDrawing (mouse down, touch start).  A pointer that goes down while
\* a request is processing lands on the LoadingOverlay (App.tsx:723), which
\* covers the canvases, so the handler cannot start then.  mapped is what
\* the handler leaves in pointer once it has mapped the event.
StartStroke(mapped) ==
  /\ Mounted
  /\ ~processing
  /\ UNCHANGED <<originalImage, currentImageUrl, mode, processing, promptInput, hasMask,
                 logoState, maskCanvas, canvas, loads, requests>>
  /\ IF mode # REMOVE_OBJECT
     THEN /\ UNCHANGED <<isDrawing, maskHistory, pushed, undoRun, undoDisabled>>
          /\ UNCHANGED pointer
          /\ ev' = "downIgnored"
          /\ strokeBegun' = Since(ev')
          /\ outdated' = Overtaken(ev')
     ELSE /\ maskHistory' = saveMaskState(maskHistory, maskCanvas)
          /\ isDrawing' = TRUE
          /\ pushed' = IF pushed.ok
                       THEN [pushed EXCEPT !.seq = Append(@, GetImageData(maskCanvas))]
                       ELSE pushed
          /\ undoRun' = RunAfter(maskHistory')
          /\ Render(FALSE)
          /\ pointer' = mapped
          /\ ev' = "down"
          /\ strokeBegun' = Since(ev')
          /\ outdated' = Overtaken(ev')

\* The pointer-down of the sessions: ctx.moveTo marks no pixel, so where the
\* path begins is not followed.
startDrawing == StartStroke(pointer)

\* The pointer-down e on a mask canvas displayed in rect.
startDrawingAt(rect, e) ==
  StartStroke(<<[rect |-> rect, e |-> e,
                 at |-> getCanvasCoordinates(rect, maskCanvas.size, e)]>>)

\* draw (mouse move, touch move) at native pixel p.  A touch that began on
\* the canvas keeps delivering its moves and its end to the canvas.
draw(p) ==
  /\ Mounted
  /\ p \in PixelsOf(maskCanvas.size)
  /\ UNCHANGED <<originalImage, currentImageUrl, mode, processing, promptInput, isDrawing,
                 logoState, maskHistory, canvas, loads, requests, pushed>>
  /\ IF ~isDrawing \/ mode # REMOVE_OBJECT
     THEN /\ UNCHANGED <<hasMask, maskCanvas, undoRun, undoDisabled>>
          /\ UNCHANGED pointer
          /\ ev' = "moveIgnored"
          /\ strokeBegun' = Since(ev')
          /\ outdated' = Overtaken(ev')
     ELSE /\ maskCanvas' = Stroke(maskCanvas, p)
          /\ hasMask' = TRUE
          /\ undoRun' = RunAfter(maskHistory)
          /\ Render(FALSE)
          /\ UNCHANGED pointer
          /\ ev' = "move"
          /\ strokeBegun' = Since(ev')
          /\ outdated' = Overtaken(ev')

\* Mutant of stopDrawing: the stroke state is left as it is.
stopDrawingStaysDrawing ==
  /\ Mounted
  /\ UNCHANGED <<originalImage, currentImageUrl, mode, processing, promptInput, hasMask,
                 logoState, maskHistory, maskCanvas, canvas, loads, requests, pushed, undoRun,
                 isDrawing, undoDisabled>>
  /\ UNCHANGED pointer
  /\ ev' = IF isDrawing THEN "up" ELSE "upIgnored"
  /\ strokeBegun' = Since(ev')
  /\ outdated' = Overtaken(ev')

\* stopDrawing (mouse up, mouse leave, touch end)
stopDrawing ==
  /\ Mounted
  /\ isDrawing' = FALSE
  /\ UNCHANGED <<originalImage, currentImageUrl, mode, processing, promptInput, hasMask,
                 logoState, maskHistory, maskCanvas, canvas, loads, requests, pushed, undoRun>>
  /\ Render(FALSE)
  /\ UNCHANGED pointer
  /\ ev' = IF isDrawing THEN "up" ELSE "upIgnored"
  /\ strokeBegun' = Since(ev')
  /\ outdated' = Overtaken(ev')

(***************************************************************************)
(* Undo and Clear buttons of the eraser panel (App.tsx:505-517)            *)
(***************************************************************************)
\* Mutant of undoResult: the buffer is not cleared when no snapshot is left.
undoResultNoClear(history, mc) ==
  IF Len(history) > 0
  THEN [mc |-> PutImageData(mc, history[Len(history)]), hasMask |-> TRUE]
  ELSE [mc |-> mc, hasMask |-> FALSE]

\* What undoMask does after the pop (App.tsx:175-184): restore the snapshot
\* now on top, or clear the buffer when none is left.
undoResult(history, mc) ==
  IF Len(history) > 0
  THEN [mc |-> PutImageData(mc, history[Len(history)]), hasMask |-> TRUE]
  ELSE [mc |-> ClearRect(mc), hasMask |-> FALSE]

\* Mutant of undoMask: the stroke in progress is stopped before the history
\* is looked at.
undoMaskStopsStroke ==
  /\ Mounted /\ mode = REMOVE_OBJECT
  /\ ~undoDisabled
  /\ isDrawing' = FALSE
  /\ UNCHANGED <<originalImage, currentImageUrl, mode, processing, promptInput,
                 logoState, canvas, loads, requests>>
  /\ IF Len(maskHistory) = 0
     THEN /\ UNCHANGED <<hasMask, maskHistory, maskCanvas, pushed, undoRun>>
          /\ Render(FALSE)
          /\ UNCHANGED pointer
          /\ ev' = "undoNoop"
          /\ strokeBegun' = Since(ev')
          /\ outdated' = Overtaken(ev')
     ELSE /\ maskHistory' = Pop(maskHistory)
          /\ maskCanvas' = undoResult(maskHistory', maskCanvas).mc
          /\ hasMask' = undoResult(maskHistory', maskCanvas).hasMask
          /\ pushed' = [ok |-> Len(maskHistory') = 0, seq |-> <<>>]
          /\ undoRun' = IF undoRun >= 0 THEN undoRun + 1 ELSE -1
          /\ Render(FALSE)
          /\ UNCHANGED pointer
          /\ ev' = "undo"
          /\ strokeBegun' = Since(ev')
          /\ outdated' = Overtaken(ev')

\* undoMask, behind the Undo button as it was last rendered.
undoMask ==
  /\ Mounted /\ mode = REMOVE_OBJECT
  /\ ~undoDisabled
  /\ UNCHANGED <<originalImage, currentImageUrl, mode, processing, promptInput, isDrawing,
                 logoState, canvas, loads, requests>>
  /\ IF Len(maskHistory) = 0
     THEN /\ UNCHANGED <<hasMask, maskHistory, maskCanvas, pushed, undoRun, undoDisabled>>
          /\ UNCHANGED pointer
          /\ ev' = "undoNoop"
          /\ strokeBegun' = Since(ev')
          /\ outdated' = Overtaken(ev')
     ELSE /\ maskHistory' = Pop(maskHistory)
          /\ maskCanvas' = undoResult(maskHistory', maskCanvas).mc
          /\ hasMask' = undoResult(maskHistory', maskCanvas).hasMask
          /\ pushed' = [ok |-> Len(maskHistory') = 0, seq |-> <<>>]
          /\ undoRun' = IF undoRun >= 0 THEN undoRun + 1 ELSE -1
          /\ Render(FALSE)
          /\ UNCHANGED pointer
          /\ ev' = "undo"
          /\ strokeBegun' = Since(ev')
          /\ outdated' = Overtaken(ev')

\* The Clear button: onClick={clearMask}
clearButton ==
  LET c == clearMask IN
  /\ Mounted /\ mode = REMOVE_OBJECT
  /\ maskCanvas' = c.mc
  /\ hasMask' = c.hasMask
  /\ maskHistory' = c.history
  /\ pushed' = c.pushed
  /\ undoRun' = c.undoRun
  /\ UNCHANGED <<originalImage, currentImageUrl, mode, processing, promptInput, isDrawing,
                 logoState, canvas, loads, requests>>
  /\ Render(FALSE)
  /\ UNCHANGED pointer
  /\ ev' = "clear"
  /\ strokeBegun' = Since(ev')
  /\ outdated' = Overtaken(ev')

(***************************************************************************)
(* The edit request (App.tsx:203-282)                                      *)
(***************************************************************************)
\* currentImageUrl.startsWith('data:'): uploaded files are blob: URLs, the
\* results of the edit service are data: URLs.
StartsWithData(url) == url \in Results

\* The payload built for the edit service and the prompt that goes with it.
\* ctxOk: whether compositeCanvas.getContext('2d') gave a context.
\* Erase mode with a context: the base canvas with the mask canvas drawn on
\* top and the fixed inpainting prompt; without a context base64Data stays
\* "" and finalPrompt stays promptInput.  Other modes: the bytes behind
\* currentImageUrl and the prompt of the mode.
CompositePayload ==
  [kind |-> "composite", size |-> canvas.size, img |-> canvas.img,
   logos |-> canvas.logos, mask |-> maskCanvas.px]

EmptyPayload ==
  [kind |-> "empty", size |-> [w |-> 0, h |-> 0], img |-> Null, logos |-> <<>>, mask |-> {}]

UrlPayload ==
  [kind |-> "image", size |-> ImageSize(currentImageUrl), img |-> currentImageUrl,
   logos |-> <<>>, mask |-> {}]

NewRequest(ctxOk) ==
  IF mode = REMOVE_OBJECT
  THEN IF ctxOk
       THEN [mode |-> mode, stage |-> "service", payload |-> CompositePayload,
             prompt |-> [template |-> "erase", text |-> ""]]
       ELSE [mode |-> mode, stage |-> "service", payload |-> EmptyPayload,
             prompt |-> [template |-> "raw", text |-> promptInput]]
  ELSE [mode |-> mode,
        stage |-> IF StartsWithData(currentImageUrl) THEN "service" ELSE "fetch",
        payload |-> UrlPayload,
        prompt |-> IF mode = CHANGE_BACKGROUND
                   THEN [template |-> "background", text |-> promptInput]
                   ELSE IF mode = MAKE_HD
                        THEN [template |-> "hd", text |-> ""]
                        ELSE [template |-> "raw", text |-> promptInput]]

\* Mutant of InputMissing: the prompt is compared without trim().
InputMissingNoTrim ==
  \/ currentImageUrl = Null
  \/ mode = REMOVE_OBJECT /\ ~hasMask
  \/ mode = CHANGE_BACKGROUND /\ promptInput = ""

\* Mutant of DownloadRaster: the mask canvas is exported with the base canvas.
DownloadRasterWithMask ==
  [size |-> canvas.size, img |-> canvas.img, logos |-> canvas.logos, mask |-> maskCanvas.px]

\* What downloadImage exports (App.tsx:358-364): the base canvas as it is,
\* the base image with the logos drawn on it.
DownloadRaster == [size |-> canvas.size, img |-> canvas.img, logos |-> canvas.logos]

\* The three early returns of handleGeminiEdit (App.tsx:204-215).
InputMissing ==
  \/ currentImageUrl = Null
  \/ mode = REMOVE_OBJECT /\ ~hasMask
  \/ mode = CHANGE_BACKGROUND /\ Trim(promptInput) = ""

\* handleGeminiEdit up to its first await.
handleGeminiEdit(ctxOk) ==
  IF InputMissing
  THEN /\ UNCHANGED <<originalImage, currentImageUrl, mode, processing, promptInput,
                      isDrawing, hasMask, logoState, maskHistory, maskCanvas, canvas,
                      undoDisabled, loads, requests, pushed, undoRun>>
       /\ UNCHANGED pointer
       /\ ev' = "editRejected"
       /\ strokeBegun' = Since(ev')
       /\ outdated' = Overtaken(ev')
  ELSE /\ processing' = TRUE
       /\ requests' = Append(requests, NewRequest(ctxOk))
       /\ UNCHANGED <<originalImage, currentImageUrl, mode, promptInput, isDrawing,
                      hasMask, logoState, maskHistory, maskCanvas, canvas, loads,
                      pushed, undoRun>>
       /\ Render(TRUE)
       /\ UNCHANGED pointer
       /\ ev' = "editAccepted"
       /\ strokeBegun' = Since(ev')
       /\ outdated' = Overtaken(ev')

\* Mutant of applyDisabled: the buttons do not look at processing.
applyDisabledIgnoresProcessing ==
  IF mode = REMOVE_OBJECT THEN ~hasMask
  ELSE IF mode = CHANGE_BACKGROUND THEN Trim(promptInput) = ""
  ELSE FALSE

\* The disabled attribute of the mode's apply button (App.tsx:523,607,629).
applyDisabled ==
  IF mode = REMOVE_OBJECT THEN ~hasMask \/ processing
  ELSE IF mode = CHANGE_BACKGROUND THEN Trim(promptInput) = "" \/ processing
  ELSE processing

\* The user presses the apply button of the active panel; a disabled button
\* dispatches no click.
applyButton(ctxOk) ==
  /\ Mounted
  /\ mode \in {REMOVE_OBJECT, CHANGE_BACKGROUND, MAKE_HD}
  /\ IF applyDisabled
     THEN /\ UNCHANGED <<originalImage, currentImageUrl, mode, processing, promptInput,
                         isDrawing, hasMask, logoState, maskHistory, maskCanvas, canvas,
                         undoDisabled, loads, requests, pushed, undoRun>>
          /\ UNCHANGED pointer
          /\ ev' = "editDisabled"
          /\ strokeBegun' = Since(ev')
          /\ outdated' = Overtaken(ev')
     ELSE handleGeminiEdit(ctxOk)

\* handleGeminiEdit called as a function, in whatever state the session is
\* in, while no earlier call is suspended.
callHandleGeminiEdit(ctxOk) ==
  /\ ~processing
  /\ handleGeminiEdit(ctxOk)

Without(seq, i) == SubSeq(seq, 1, i - 1) \o SubSeq(seq, i + 1, Len(seq))

\* await fetch(currentImageUrl), response.blob(), fileToGenerativePart(blob)
\* all resolved: editImageWithGemini is called (App.tsx:252-267).
fetchResolved(i) ==
  /\ i \in 1..Len(requests)
  /\ requests[i].stage = "fetch"
  /\ requests' = [requests EXCEPT ![i].stage = "service"]
  /\ UNCHANGED <<originalImage, currentImageUrl, mode, processing, promptInput,
                 isDrawing, hasMask, logoState, maskHistory, maskCanvas, canvas,
                 undoDisabled, loads, pushed, undoRun>>
  /\ UNCHANGED pointer
  /\ ev' = "fetched"
  /\ strokeBegun' = Since(ev')
  /\ outdated' = Overtaken(ev')

\* Mutants of Failed: there is no finally block, processing stays set; the
\* catch block also leaves the tool.
FailedKeepsProcessing(i, label) ==
  /\ requests' = Without(requests, i)
  /\ UNCHANGED <<originalImage, currentImageUrl, mode, processing, promptInput,
                 isDrawing, hasMask, logoState, maskHistory, maskCanvas, canvas,
                 loads, pushed, undoRun>>
  /\ Render(TRUE)
  /\ UNCHANGED pointer
  /\ ev' = label
  /\ strokeBegun' = Since(ev')
  /\ outdated' = Overtaken(ev')

FailedResetsMode(i, label) ==
  /\ processing' = FALSE
  /\ mode' = IDLE
  /\ requests' = Without(requests, i)
  /\ UNCHANGED <<originalImage, currentImageUrl, promptInput, isDrawing,
                 hasMask, logoState, maskHistory, maskCanvas, canvas, loads,
                 pushed, undoRun>>
  /\ Render(TRUE)
  /\ UNCHANGED pointer
  /\ ev' = label
  /\ strokeBegun' = Since(ev')
  /\ outdated' = Overtaken(ev')

\* catch and finally (App.tsx:277-281): an await of the try block threw.
Failed(i, label) ==
  /\ processing' = FALSE
  /\ requests' = Without(requests, i)
  /\ UNCHANGED <<originalImage, currentImageUrl, mode, promptInput, isDrawing,
                 hasMask, logoState, maskHistory, maskCanvas, canvas, loads,
                 pushed, undoRun>>
  /\ Render(TRUE)
  /\ UNCHANGED pointer
  /\ ev' = label
  /\ strokeBegun' = Since(ev')
  /\ outdated' = Overtaken(ev')

fetchRejected(i) ==
  /\ i \in 1..Len(requests)
  /\ requests[i].stage = "fetch"
  /\ Failed(i, "fetchFailed")

serviceRejected(i) ==
  /\ i \in 1..Len(requests)
  /\ requests[i].stage = "service"
  /\ Failed(i, "serviceFailed")

\* editImageWithGemini resolved with a new image (App.tsx:267-275, 279-281).
\* mode is the value the call captured when it started.
serviceResolved(i, result) ==
  /\ i \in 1..Len(requests)
  /\ requests[i].stage = "service"
  /\ LET c == IF requests[i].mode = REMOVE_OBJECT
              THEN clearMask
              ELSE [mc |-> maskCanvas, hasMask |-> hasMask, history |-> maskHistory,
                    pushed |-> pushed, undoRun |-> undoRun]
     IN /\ currentImageUrl' = result
        /\ hasMask' = c.hasMask
        /\ maskHistory' = c.history
        /\ pushed' = c.pushed
        /\ undoRun' = c.undoRun
        /\ mode' = IDLE
        /\ promptInput' = ""
        /\ processing' = FALSE
        /\ requests' = Without(requests, i)
        /\ UNCHANGED <<originalImage, isDrawing, logoState, canvas>>
        /\ Effects(TRUE, FALSE, c.mc)
        /\ Render(TRUE)
        /\ UNCHANGED pointer
        /\ ev' = "serviceResolved"
        /\ strokeBegun' = Since(ev')
        /\ outdated' = Overtaken(ev')

(***************************************************************************)
(* Image loads of the drawing effect (App.tsx:103-136)                     *)
(***************************************************************************)
\* Mutant of baseImgOnload: the mask canvas is not sized with the base canvas.
baseImgOnloadKeepsMask(i) ==
  /\ i \in 1..Len(loads)
  /\ loads[i].kind = "base"
  /\ canvas' = [size |-> loads[i].base, img |-> loads[i].img, logos |-> <<>>]
  /\ loads' = IF loads[i].logo.previewUrl # Null
              THEN [loads EXCEPT ![i].kind = "logo"]
              ELSE Without(loads, i)
  /\ UNCHANGED <<originalImage, currentImageUrl, mode, processing, promptInput,
                 isDrawing, hasMask, logoState, maskHistory, undoDisabled, requests,
                 pushed, undoRun, maskCanvas>>
  /\ UNCHANGED pointer
  /\ ev' = "baseLoaded"
  /\ strokeBegun' = Since(ev')
  /\ outdated' = Overtaken(ev')

\* baseImg.onload: size both canvases, draw the base image, start loading
\* the logo the effect captured.
baseImgOnload(i) ==
  /\ i \in 1..Len(loads)
  /\ loads[i].kind = "base"
  /\ canvas' = [size |-> loads[i].base, img |-> loads[i].img, logos |-> <<>>]
  /\ maskCanvas' = Resized(loads[i].base)
  /\ loads' = IF loads[i].logo.previewUrl # Null
              THEN [loads EXCEPT ![i].kind = "logo"]
              ELSE Without(loads, i)
  /\ UNCHANGED <<originalImage, currentImageUrl, mode, processing, promptInput,
                 isDrawing, hasMask, logoState, maskHistory, undoDisabled, requests,
                 pushed, undoRun>>
  /\ UNCHANGED pointer
  /\ ev' = "baseLoaded"
  /\ strokeBegun' = Since(ev')
  /\ outdated' = Overtaken(ev')

\* Mutant of LogoRect: x and y place the logo's top-left corner.
LogoRectTopLeft(base, logo, st) ==
  LET logoWidth == RDiv(Num(base.w * st.scale), Num(100))
      aspectRatio == RDiv(Num(logo.w), Num(logo.h))
      logoHeight == RDiv(logoWidth, aspectRatio)
      xPos == RDiv(Num(base.w * st.x), Num(100))
      yPos == RDiv(Num(base.h * st.y), Num(100))
  IN  [x |-> xPos, y |-> yPos, w |-> logoWidth, h |-> logoHeight]

\* The rectangle logoImg.onload draws the logo into (App.tsx:125-133), for
\* a base image of size base, a logo image of size logo and the placement
\* st the effect captured.
LogoRect(base, logo, st) ==
  LET logoWidth == RDiv(Num(base.w * st.scale), Num(100))
      aspectRatio == RDiv(Num(logo.w), Num(logo.h))
      logoHeight == RDiv(logoWidth, aspectRatio)
      xPos == RSub(RDiv(Num(base.w * st.x), Num(100)), RDiv(logoWidth, Num(2)))
      yPos == RSub(RDiv(Num(base.h * st.y), Num(100)), RDiv(logoHeight, Num(2)))
  IN  [x |-> xPos, y |-> yPos, w |-> logoWidth, h |-> logoHeight]

\* logoImg.onload: draw the logo on the base canvas as it is now, into the
\* rectangle computed from the base size and the placement the effect
\* captured.
logoImgOnload(i) ==
  /\ i \in 1..Len(loads)
  /\ loads[i].kind = "logo"
  /\ canvas' = [canvas EXCEPT !.logos =
                  Append(@, [src |-> loads[i].logo.previewUrl,
                             rect |-> LogoRect(loads[i].base,
                                               LogoSize(loads[i].logo.previewUrl),
                                               loads[i].logo)])]
  /\ loads' = Without(loads, i)
  /\ UNCHANGED <<originalImage, currentImageUrl, mode, processing, promptInput,
                 isDrawing, hasMask, logoState, maskHistory, maskCanvas, undoDisabled,
                 requests, pushed, undoRun>>
  /\ UNCHANGED pointer
  /\ ev' = "logoLoaded"
  /\ strokeBegun' = Since(ev')
  /\ outdated' = Overtaken(ev')

(***************************************************************************)
(* The session                                                             *)
(***************************************************************************)
Init ==
  /\ originalImage = Null
  /\ currentImageUrl = Null
  /\ mode = IDLE
  /\ processing = FALSE
  /\ promptInput = ""
  /\ isDrawing = FALSE
  /\ hasMask = FALSE
  /\ logoState = InitialLogoState
  /\ maskHistory = <<>>
  /\ maskCanvas = Resized(DefaultCanvasSize)
  /\ canvas = [size |-> DefaultCanvasSize, img |-> Null, logos |-> <<>>]
  /\ undoDisabled = TRUE
  /\ loads = <<>>
  /\ requests = <<>>
  /\ pushed = [ok |-> TRUE, seq |-> <<>>]
  /\ undoRun = -1
  /\ pointer = <<>>
  /\ strokeBegun = FALSE
  /\ outdated = FALSE
  /\ ev = "init"

\* Room for one more image load.
LoadRoom == Len(loads) < MaxLoads

\* What the environment can do between two events: an outstanding await of
\* handleGeminiEdit settles, or a pending image finishes loading.
Respond(results) ==
  \/ \E i \in 1..Len(requests) : fetchResolved(i)
  \/ \E i \in 1..Len(requests) : fetchRejected(i)
  \/ \E i \in 1..Len(requests) : serviceRejected(i)
  \/ \E i \in 1..Len(requests), r \in results : LoadRoom /\ serviceResolved(i, r)

(***************************************************************************)
(* Spec: the whole session but the logo panel.  One file, a result of      *)
(* another size, every mode, every prompt text, strokes that mark one      *)
(* pixel on a history kept to MaxHistory snapshots.                        *)
(***************************************************************************)
SessionFiles == {"f1"}
SessionResults == {"r2"}
SessionPixels == {<<50, 50>>}

Next ==
  \/ \E f \in SessionFiles : LoadRoom /\ handleImageUpload(f)
  \/ LoadRoom /\ resetImage
  \/ \E m \in EditMode \ {IDLE} : setModeButton(m)
  \/ \E t \in Prompts : setPromptInput(t)
  \/ RerenderOnly
  \/ Len(maskHistory) < MaxHistory /\ startDrawing
  \/ \E p \in SessionPixels : draw(p)
  \/ stopDrawing
  \/ undoMask
  \/ clearButton
  \/ \E ctxOk \in BOOLEAN : applyButton(ctxOk)
  \/ Respond(SessionResults)
  \/ \E i \in 1..Len(loads) : baseImgOnload(i)

Spec == Init /\ [][Next]_vars

(***************************************************************************)
(* HistorySpec: the undo history at its full depth.  The eraser is the     *)
(* only tool; one file, results of the file's size, one pixel to mark.     *)
(* Strokes, undo and clear run against uploads, resets, erase requests     *)
(* (which go to the edit service without a fetch) and the image loads      *)
(* that follow them, one load at a time.                                   *)
(***************************************************************************)
HistoryFiles == {"f1"}
HistoryResults == {"r1"}
HistoryPixels == {<<50, 50>>}

\* Room for one more push in a run of pushes that began on an empty history.
PushRoom == pushed.ok => Len(pushed.seq) < MaxPushed

\* Every image finishes loading before the next one is set.
OneLoad == loads = <<>>

NextHistory ==
  \/ \E f \in HistoryFiles : OneLoad /\ handleImageUpload(f)
  \/ OneLoad /\ resetImage
  \/ setModeButton(REMOVE_OBJECT)
  \/ RerenderOnly
  \/ PushRoom /\ startDrawing
  \/ \E p \in HistoryPixels : draw(p)
  \/ stopDrawing
  \/ undoMask
  \/ clearButton
  \/ \E ctxOk \in BOOLEAN : applyButton(ctxOk)
  \/ \E i \in 1..Len(requests) : serviceRejected(i)
  \/ \E i \in 1..Len(requests), r \in HistoryResults : OneLoad /\ serviceResolved(i, r)
  \/ \E i \in 1..Len(loads) : baseImgOnload(i)

HistorySpec == Init /\ [][NextHistory]_vars

(***************************************************************************)
(* UndoSpec: undo across images of different sizes.  The eraser and the    *)
(* HD tool, one file, a result that is wider than the file, two pixels of  *)
(* which one lies outside the file's width.                                *)
(***************************************************************************)
UndoFiles == {"f1"}
UndoResults == {"r2"}

NextUndo ==
  \/ \E f \in UndoFiles : LoadRoom /\ handleImageUpload(f)
  \/ LoadRoom /\ resetImage
  \/ \E m \in {REMOVE_OBJECT, MAKE_HD} : setModeButton(m)
  \/ RerenderOnly
  \/ Len(maskHistory) < MaxStale /\ startDrawing
  \/ \E p \in SamplePixels : draw(p)
  \/ stopDrawing
  \/ undoMask
  \/ clearButton
  \/ \E ctxOk \in BOOLEAN : applyButton(ctxOk)
  \/ Respond(UndoResults)
  \/ \E i \in 1..Len(loads) : baseImgOnload(i)

UndoSpec == Init /\ [][NextUndo]_vars

(***************************************************************************)
(* HandlerSpec: the session of Spec, and handleGeminiEdit also called      *)
(* directly, past the apply buttons, so that its own early returns run.    *)
(***************************************************************************)
NextHandler ==
  \/ Next
  \/ \E ctxOk \in BOOLEAN : callHandleGeminiEdit(ctxOk)

HandlerSpec == Init /\ [][NextHandler]_vars

(***************************************************************************)
(* FairSpec: sessions in which every await of an accepted edit request     *)
(* settles: the fetch and the edit service eventually answer.  The three   *)
(* tools that submit requests, one prompt text, strokes, undo and clear,   *)
(* uploads and resets.                                                     *)
(***************************************************************************)
FairModes == {REMOVE_OBJECT, CHANGE_BACKGROUND, MAKE_HD}
FairPrompts == {"beach"}

NextFair ==
  \/ \E f \in SessionFiles : OneLoad /\ handleImageUpload(f)
  \/ OneLoad /\ resetImage
  \/ \E m \in FairModes : setModeButton(m)
  \/ \E t \in FairPrompts : setPromptInput(t)
  \/ Len(maskHistory) < MaxHistory /\ startDrawing
  \/ \E p \in SessionPixels : draw(p)
  \/ stopDrawing
  \/ undoMask
  \/ clearButton
  \/ \E ctxOk \in BOOLEAN : applyButton(ctxOk)
  \/ Respond(SessionResults)
  \/ \E i \in 1..Len(loads) : baseImgOnload(i)

FairSpec == Init /\ [][NextFair]_vars /\ WF_vars(Respond(SessionResults))

(***************************************************************************)
(* LogoSpec: the logo panel and the edits that follow it.  One file, one   *)
(* logo, the sliders, the tools that send the image to the edit service,   *)
(* and every image load of the drawing effect.                             *)
(***************************************************************************)
LogoSessionFiles == {"f1"}
LogoSessionLogos == {"l2"}
LogoSessionResults == {"r2"}
LogoModes == {ADD_LOGO, CHANGE_BACKGROUND, MAKE_HD}
LogoPrompts == {"beach"}

NextLogo ==
  \/ \E f \in LogoSessionFiles : LoadRoom /\ handleImageUpload(f)
  \/ LoadRoom /\ resetImage
  \/ \E m \in LogoModes : setModeButton(m)
  \/ \E t \in LogoPrompts : setPromptInput(t)
  \/ \E l \in LogoSessionLogos : LoadRoom /\ handleLogoUpload(l)
  \/ \E v \in XValues : LoadRoom /\ setLogoX(v)
  \/ \E v \in YValues : LoadRoom /\ setLogoY(v)
  \/ \E v \in ScaleValues : LoadRoom /\ setLogoScale(v)
  \/ LoadRoom /\ removeLogo
  \/ \E ctxOk \in BOOLEAN : applyButton(ctxOk)
  \/ Respond(LogoSessionResults)
  \/ \E i \in 1..Len(loads) : baseImgOnload(i)
  \/ \E i \in 1..Len(loads) : logoImgOnload(i)

LogoSpec == Init /\ [][NextLogo]_vars

(***************************************************************************)
(* PlacementSpec: the logo placement on its own.  The session starts with  *)
(* an image loaded, a logo chosen and the sliders set, the base image      *)
(* drawn and the logo image still loading; the logo load then runs.        *)
(***************************************************************************)
PlacementFiles == {"f1", "f2", "f3"}
PlacementX == {0, 25, 50, 100}
PlacementY == {0, 50, 75, 100}
PlacementScale == {5, 20, 33, 80}

InitPlacement ==
  /\ originalImage \in PlacementFiles
  /\ currentImageUrl = originalImage
  /\ mode = ADD_LOGO
  /\ processing = FALSE
  /\ promptInput = ""
  /\ isDrawing = FALSE
  /\ hasMask = FALSE
  /\ logoState \in [file : LogoFiles, previewUrl : LogoFiles,
                    x : PlacementX, y : PlacementY, scale : PlacementScale]
  /\ logoState.file = logoState.previewUrl
  /\ maskHistory = <<>>
  /\ maskCanvas = Resized(ImageSize(currentImageUrl))
  /\ canvas = [size |-> ImageSize(currentImageUrl), img |-> currentImageUrl, logos |-> <<>>]
  /\ undoDisabled = TRUE
  /\ loads = <<[kind |-> "logo", img |-> currentImageUrl,
                base |-> ImageSize(currentImageUrl), logo |-> logoState,
                dep |-> "logoState"]>>
  /\ requests = <<>>
  /\ pushed = [ok |-> TRUE, seq |-> <<>>]
  /\ undoRun = -1
  /\ pointer = <<>>
  /\ strokeBegun = FALSE
  /\ outdated = FALSE
  /\ ev = "baseLoaded"

NextPlacement == \E i \in 1..Len(loads) : logoImgOnload(i)

PlacementSpec == InitPlacement /\ [][NextPlacement]_vars

(***************************************************************************)
(* MapperSpec: the coordinate mapping on its own.  The session starts in   *)
(* erase mode on a loaded image of each size; pointers go down on the mask *)
(* canvas, displayed in rectangles of several positions and sizes (whole   *)
(* and fractional), at the rectangle's corners and inside it, as mouse     *)
(* events and as touch events with a second touch elsewhere.               *)
(***************************************************************************)
MapperFiles == {"f1", "f2", "f3"}

MapperRects ==
  { [left |-> Num(0), top |-> Num(0), width |-> Num(100), height |-> Num(100)],
    [left |-> Num(20), top |-> Num(10), width |-> Num(50), height |-> Num(25)],
    [left |-> Rat(641, 2), top |-> Num(0 - 30), width |-> Rat(667, 2), height |-> Num(49)],
    [left |-> Num(7), top |-> Rat(15, 4), width |-> Num(3), height |-> Num(700)] }

\* The client points tried on a rectangle: its corners and its centre.
MapperPoints(rect) ==
  { [clientX |-> RAdd(rect.left, RMul(rect.width, fx)),
     clientY |-> RAdd(rect.top, RMul(rect.height, fy))] :
      fx \in {Num(0), Rat(1, 2), Num(1)}, fy \in {Num(0), Rat(1, 2), Num(1)} }

MapperEvents(rect) ==
  { [kind |-> "mouse", clientX |-> c.clientX, clientY |-> c.clientY] : c \in MapperPoints(rect) }
  \cup
  { [kind |-> "touch",
     touches |-> <<c, [clientX |-> Num(1), clientY |-> Num(2)]>>] : c \in MapperPoints(rect) }

InitMapper ==
  /\ originalImage \in MapperFiles
  /\ currentImageUrl = originalImage
  /\ mode = REMOVE_OBJECT
  /\ processing = FALSE
  /\ promptInput = ""
  /\ isDrawing = FALSE
  /\ hasMask = FALSE
  /\ logoState = InitialLogoState
  /\ maskHistory = <<>>
  /\ maskCanvas = Resized(ImageSize(currentImageUrl))
  /\ canvas = [size |-> ImageSize(currentImageUrl), img |-> currentImageUrl, logos |-> <<>>]
  /\ undoDisabled = TRUE
  /\ loads = <<>>
  /\ requests = <<>>
  /\ pushed = [ok |-> TRUE, seq |-> <<>>]
  /\ undoRun = -1
  /\ pointer = <<>>
  /\ strokeBegun = FALSE
  /\ outdated = FALSE
  /\ ev = "mode"

NextMapper ==
  \/ \E rect \in MapperRects : \E e \in MapperEvents(rect) :
       maskHistory = <<>> /\ startDrawingAt(rect, e)
  \/ clearButton

MapperSpec == InitMapper /\ [][NextMapper]_vars

(***************************************************************************)
(* StrokeSpec: whole strokes.  One image is uploaded and loaded and the    *)
(* eraser chosen; then every stroke is a pointer-down, one or more moves   *)
(* over two pixels and a pointer-up; undo and clear are pressed between    *)
(* strokes.                                                                *)
(***************************************************************************)
StrokeFiles == {"f2"}

NextStroke ==
  \/ \E f \in StrokeFiles : currentImageUrl = Null /\ handleImageUpload(f)
  \/ \E i \in 1..Len(loads) : baseImgOnload(i)
  \/ loads = <<>> /\ mode = IDLE /\ setModeButton(REMOVE_OBJECT)
  \/ loads = <<>> /\ ~isDrawing /\ Len(maskHistory) < MaxStrokes /\ startDrawing
  \/ \E p \in SamplePixels : isDrawing /\ draw(p)
  \/ isDrawing /\ ev = "move" /\ stopDrawing
  \/ ~isDrawing /\ undoMask
  \/ ~isDrawing /\ clearButton

StrokeSpec == Init /\ [][NextStroke]_vars

(***************************************************************************)
(* RaceSpec: image loads that overlap.  The session of LogoSpec with the   *)
(* HD tool as the only one that submits, and up to MaxRace images loading  *)
(* at once; their onload callbacks run in any order.                       *)
(***************************************************************************)
RaceModes == {ADD_LOGO, MAKE_HD}

\* Room for one more image load while loads overlap.
RaceRoom == Len(loads) < MaxRace

NextRace ==
  \/ \E f \in LogoSessionFiles : RaceRoom /\ handleImageUpload(f)
  \/ RaceRoom /\ resetImage
  \/ \E m \in RaceModes : setModeButton(m)
  \/ \E l \in LogoSessionLogos : RaceRoom /\ handleLogoUpload(l)
  \/ \E v \in XValues : RaceRoom /\ setLogoX(v)
  \/ \E v \in YValues : RaceRoom /\ setLogoY(v)
  \/ \E v \in ScaleValues : RaceRoom /\ setLogoScale(v)
  \/ RaceRoom /\ removeLogo
  \/ \E ctxOk \in BOOLEAN : applyButton(ctxOk)
  \/ \E i \in 1..Len(requests) : fetchResolved(i)
  \/ \E i \in 1..Len(requests) : fetchRejected(i)
  \/ \E i \in 1..Len(requests) : serviceRejected(i)
  \/ \E i \in 1..Len(requests), r \in LogoSessionResults : RaceRoom /\ serviceResolved(i, r)
  \/ \E i \in 1..Len(loads) : baseImgOnload(i)
  \/ \E i \in 1..Len(loads) : logoImgOnload(i)

RaceSpec == Init /\ [][NextRace]_vars

(***************************************************************************)
(* StudioSpec: every panel of the sidebar in one session.  One file, one   *)
(* logo that the X slider moves, the eraser, the logo tool and the HD tool, *)
(* strokes that mark one pixel on a history kept to MaxHistory snapshots,  *)
(* undo and clear, edit requests and their answers; every image finishes   *)
(* loading before the next one is set.                                     *)
(***************************************************************************)
StudioModes == {REMOVE_OBJECT, ADD_LOGO, MAKE_HD}

NextStudio ==
  \/ \E f \in LogoSessionFiles : OneLoad /\ handleImageUpload(f)
  \/ OneLoad /\ resetImage
  \/ \E m \in StudioModes : setModeButton(m)
  \/ \E l \in LogoSessionLogos : OneLoad /\ handleLogoUpload(l)
  \/ \E v \in XValues : OneLoad /\ setLogoX(v)
  \/ OneLoad /\ removeLogo
  \/ Len(maskHistory) < MaxHistory /\ startDrawing
  \/ \E p \in SessionPixels : draw(p)
  \/ stopDrawing
  \/ undoMask
  \/ clearButton
  \/ \E ctxOk \in BOOLEAN : applyButton(ctxOk)
  \/ \E i \in 1..Len(requests) : fetchResolved(i)
  \/ \E i \in 1..Len(requests) : fetchRejected(i)
  \/ \E i \in 1..Len(requests) : serviceRejected(i)
  \/ \E i \in 1..Len(requests), r \in LogoSessionResults : OneLoad /\ serviceResolved(i, r)
  \/ \E i \in 1..Len(loads) : baseImgOnload(i)
  \/ \E i \in 1..Len(loads) : logoImgOnload(i)

StudioSpec == Init /\ [][NextStudio]_vars

(***************************************************************************)
(* Properties of the undo history                                          *)
(***************************************************************************)
Min(a, b) == IF a < b THEN a ELSE b
LastN(seq, n) == SubSeq(seq, Len(seq) - n + 1, Len(seq))

\* C2: in every reachable state the Mask History holds at most 10 snapshots.
C2_HistoryBounded == Len(maskHistory) <= HistoryLimit

\* A push arrived on a full history: more than 10 snapshots were pushed in
\* a row and 10 are held.
C2_Witness ==
  /\ pushed.ok /\ Len(pushed.seq) > HistoryLimit
  /\ Len(maskHistory) = HistoryLimit
  /\ ev = "down"

\* C3: eviction is FIFO.  After n pushes in a row on a history that was
\* empty, with no undo or clear in between, the history is the last
\* min(n, 10) snapshots pushed, in push order.
C3_FifoEviction ==
  pushed.ok =>
    maskHistory = LastN(pushed.seq, Min(Len(pushed.seq), HistoryLimit))

\* Twelve pushes in a row, the first of them unlike the third: what was
\* evicted differs from what is kept.
C3_Witness ==
  /\ pushed.ok /\ Len(pushed.seq) = 12
  /\ pushed.seq[1] # pushed.seq[3]
  /\ maskHistory[1] = pushed.seq[3]

\* C5: ten undos in a row from a history of 10 snapshots leave the Mask
\* Buffer cleared, the history empty and the has-content flag false.
C5_TenUndosClear ==
  undoRun = HistoryLimit =>
    /\ maskCanvas.px = {}
    /\ maskHistory = <<>>
    /\ hasMask = FALSE

\* The tenth undo of such a run has just run.
C5_Witness == undoRun = HistoryLimit /\ ev = "undo"

\* C6: undo() with an empty history is a no-op: Mask Buffer, history,
\* has-content flag, stroke state, mode and Image Surface are unchanged.
C6_UndoEmptyNoop ==
  [][(ev' \in {"undo", "undoNoop"} /\ Len(maskHistory) = 0) =>
       UNCHANGED <<maskCanvas, maskHistory, hasMask, isDrawing, mode,
                   currentImageUrl, originalImage, canvas>>]_vars

\* Undo ran on an empty history, in the middle of a stroke.
C6_Witness == ev = "undoNoop" /\ Len(maskHistory) = 0 /\ isDrawing

\* C4: undo() with a non-empty history removes exactly the most recent
\* snapshot; if a snapshot is left the Mask Buffer becomes equal to the new
\* most recent one and the has-content flag is true, otherwise the buffer
\* is cleared and the flag is false.
C4_UndoRestores ==
  [][(ev' = "undo" /\ Len(maskHistory) > 0) =>
       /\ maskHistory' = SubSeq(maskHistory, 1, Len(maskHistory) - 1)
       /\ IF Len(maskHistory') > 0
          THEN maskCanvas'.px = maskHistory'[Len(maskHistory')].px /\ hasMask'
          ELSE maskCanvas'.px = {} /\ ~hasMask']_vars

(***************************************************************************)
(* Properties of the edit request                                          *)
(***************************************************************************)
\* The steps in which an edit is submitted: through a disabled button,
\* rejected by the handler, accepted by the handler.
EditSubmissions == {"editDisabled", "editRejected", "editAccepted"}

\* C1: at most one external edit request is outstanding at any time; an
\* edit submission made while the processing flag is true is rejected and
\* issues no second call.
C1_OneOutstanding ==
  /\ [](Len(requests) <= 1)
  /\ [][(processing /\ ev' \in EditSubmissions) =>
          (ev' # "editAccepted" /\ requests' = requests /\ processing')]_vars

\* An edit was submitted while a request was outstanding, and was dropped.
C1_Witness == processing /\ Len(requests) = 1 /\ ev = "editDisabled"

\* C7: processing true leads to processing false, under FairSpec: every
\* accepted request is eventually followed by the flag being cleared,
\* whether the service returned a result or failed.
C7_ProcessingReleased == processing ~> ~processing

\* The service answered an accepted request with a result, and the flag is
\* clear.
C7_Witness == ev = "serviceResolved" /\ ~processing /\ requests = <<>>

\* C8: a failing edit has no effect on session state.  None of the steps of
\* a request (accepted, image bytes fetched, failure handled) changes the
\* Image Surface, the Mask Buffer, the Mask History, the has-content flag,
\* the mode, the prompt text or the Logo Placement; the failure step takes
\* processing from true to false.
C8_FailureNoEffect ==
  [][(ev' \in {"editAccepted", "fetched", "fetchFailed", "serviceFailed"}) =>
       /\ UNCHANGED <<currentImageUrl, originalImage, canvas, maskCanvas,
                      maskHistory, hasMask, mode, promptInput, logoState>>
       /\ ev' = "editAccepted" => ~processing /\ processing'
       /\ ev' \in {"fetchFailed", "serviceFailed"} => processing /\ ~processing'
    ]_vars

\* The edit service failed on an erase request: the tool, the mask and its
\* history are still there and the flag is clear.
C8_Witness ==
  /\ ev = "serviceFailed" /\ ~processing
  /\ mode = REMOVE_OBJECT /\ hasMask /\ maskCanvas.px # {} /\ Len(maskHistory) > 0

\* The three cases of missing input, as the claim lists them.
MissingInputCase ==
  \/ currentImageUrl = Null
  \/ mode = REMOVE_OBJECT /\ ~hasMask
  \/ mode = CHANGE_BACKGROUND /\ promptInput \in {"", " "}

\* C9: an edit submitted with no image loaded, in erase mode without a
\* mask, or in background mode with an empty or whitespace-only prompt is
\* rejected locally: no request is issued, processing is not set and no
\* session state changes.
C9_InputMissingRejected ==
  [][(ev' \in EditSubmissions /\ MissingInputCase) =>
       /\ ev' # "editAccepted"
       /\ UNCHANGED <<originalImage, currentImageUrl, mode, processing, promptInput,
                      isDrawing, hasMask, logoState, maskHistory, maskCanvas, canvas,
                      undoDisabled, loads, requests>>]_vars

\* handleGeminiEdit returned early on a whitespace-only background prompt.
C9_Witness ==
  /\ ev = "editRejected"
  /\ mode = CHANGE_BACKGROUND /\ promptInput = " "
  /\ currentImageUrl # Null
  /\ ~processing /\ requests = <<>>

\* C10: when the erase composite cannot be produced, no bytes are encoded
\* and the edit is aborted: no request with an empty payload is ever
\* outstanding at the edit service.
C10_NoCallWithoutComposite ==
  \A i \in 1..Len(requests) :
    requests[i].stage = "service" => requests[i].payload.kind # "empty"

(***************************************************************************)
(* Properties of image replacement                                         *)
(***************************************************************************)
\* C11: when an edit completes successfully, in whichever mode it was
\* submitted, the Image Surface is the service result, the Mask Buffer has
\* no marked pixel, the has-content flag is false, the mode is idle and the
\* prompt text is empty.
C11_SuccessResets ==
  [][(ev' = "serviceResolved") =>
       /\ currentImageUrl' \in Results
       /\ maskCanvas'.px = {}
       /\ ~hasMask'
       /\ mode' = IDLE
       /\ promptInput' = ""]_vars

\* C12: whenever the Image Surface is replaced (upload, reset, successful
\* edit in any mode) the Mask History is emptied.
C12_ReplacementEmptiesHistory ==
  [][(ev' \in {"upload", "reset", "serviceResolved"}) => maskHistory' = <<>>]_vars

\* C13: after resetImage() on a session with an uploaded original the Mask
\* Buffer and the history are empty, the has-content flag is false, the
\* mode is idle and the Image Surface is the uploaded file.
C13_ResetRestores ==
  [][(ev' = "reset" /\ originalImage # Null) =>
       /\ currentImageUrl' = originalImage
       /\ originalImage' = originalImage
       /\ maskCanvas'.px = {}
       /\ maskHistory' = <<>>
       /\ ~hasMask'
       /\ mode' = IDLE]_vars

\* Reset has just run on a session whose display surface still shows the
\* result of an edit.
C13_Witness ==
  /\ ev = "reset"
  /\ canvas.img \in Results
  /\ currentImageUrl = originalImage /\ originalImage \in Files
  /\ maskHistory = <<>> /\ ~hasMask /\ mode = IDLE

(***************************************************************************)
(* Properties of the Stroke Engine                                         *)
(***************************************************************************)
\* C14: clear() leaves no marked pixel, an empty history, the has-content
\* flag false and the Stroke Engine Idle (a stroke in progress is
\* abandoned).
C14_ClearAbandonsStroke ==
  [][(ev' = "clear") =>
       /\ maskCanvas'.px = {}
       /\ maskHistory' = <<>>
       /\ ~hasMask'
       /\ ~isDrawing']_vars

\* C19: a pointer-down in erase mode leaves the Stroke Engine Drawing and
\* pushes exactly one snapshot, of the buffer as it was before the stroke,
\* on top of the history (the oldest snapshot leaves a full history); a
\* pointer-down in any other mode changes neither the stroke state, the
\* history nor the Mask Buffer.
C19_PointerDown ==
  [][(ev' \in {"down", "downIgnored"}) =>
       IF mode = REMOVE_OBJECT
       THEN /\ isDrawing'
            /\ Len(maskHistory') = Min(Len(maskHistory) + 1, HistoryLimit)
            /\ maskHistory'[Len(maskHistory')] =
                 [size |-> maskCanvas.size, px |-> maskCanvas.px]
            /\ \A k \in 1..(Len(maskHistory') - 1) :
                 maskHistory'[k] = maskHistory[Len(maskHistory) - Len(maskHistory') + 1 + k]
            /\ maskCanvas' = maskCanvas
       ELSE UNCHANGED <<isDrawing, maskHistory, maskCanvas>>]_vars

\* A stroke has just started on a buffer that had marked pixels: the
\* snapshot on top of the history holds them.
C19_Witness ==
  /\ ev = "down" /\ isDrawing /\ mode = REMOVE_OBJECT
  /\ Len(maskHistory) > 1
  /\ maskHistory[Len(maskHistory)].px # {}
  /\ maskHistory[Len(maskHistory)].px = maskCanvas.px

\* C20: in every reachable state, if the mode is not erase then the Stroke
\* Engine is Idle.
C20_DrawingOnlyInErase == mode # REMOVE_OBJECT => ~isDrawing

(***************************************************************************)
(* Properties of the payload                                               *)
(***************************************************************************)
\* C16: the payload of an erase request is the composite of the base
\* display surface with the Mask Buffer on top, at the base surface's
\* size, and its prompt is the fixed red-mask instruction.
C16_ErasePayload ==
  [][(ev' = "editAccepted" /\ mode = REMOVE_OBJECT) =>
       LET r == requests'[Len(requests')] IN
         /\ r.payload.kind = "composite"
         /\ r.payload.size = canvas.size
         /\ r.payload.img = canvas.img
         /\ r.payload.logos = canvas.logos
         /\ r.payload.mask = maskCanvas.px
         /\ r.prompt.template = "erase"]_vars

(***************************************************************************)
(* Properties of the logo placement                                        *)
(***************************************************************************)
\* C17: the logo's draw rectangle has width baseWidth*scale/100 and its
\* centre is (baseWidth*x/100, baseHeight*y/100), for every base size,
\* logo aspect ratio and placement.
C17_LogoRectCentred ==
  \A k \in 1..Len(canvas.logos) :
    LET r == canvas.logos[k].rect IN
      /\ r.w = Rat(canvas.size.w * logoState.scale, 100)
      /\ RAdd(r.x, RDiv(r.w, Num(2))) = Rat(canvas.size.w * logoState.x, 100)
      /\ RAdd(r.y, RDiv(r.h, Num(2))) = Rat(canvas.size.h * logoState.y, 100)

\* The example: base 1000x500, scale 20, x = y = 50, a tall logo drawn with
\* centre (500, 250) and width 200.
C17_Witness ==
  /\ ev = "logoLoaded"
  /\ canvas.size = [w |-> 1000, h |-> 500]
  /\ logoState.x = 50 /\ logoState.y = 50 /\ logoState.scale = 20
  /\ Len(canvas.logos) = 1
  /\ canvas.logos[1].src = "l3"
  /\ canvas.logos[1].rect.w = Num(200)
  /\ canvas.logos[1].rect.h = Num(600)
  /\ canvas.logos[1].rect.x = Num(400)
  /\ canvas.logos[1].rect.y = Num(0 - 50)

(***************************************************************************)
(* Properties of the Coordinate Mapper                                     *)
(***************************************************************************)
\* The client point of an event: the mouse position, or the first touch.
ClientPoint(e) ==
  IF e.kind = "touch"
  THEN [clientX |-> e.touches[1].clientX, clientY |-> e.touches[1].clientY]
  ELSE [clientX |-> e.clientX, clientY |-> e.clientY]

\* C18: for every displayed rectangle and every native size the mapper
\* sends the rectangle's top-left client point to native (0,0) and its
\* bottom-right client point to (nativeWidth, nativeHeight), for mouse
\* events and for touch events (first touch point).
C18_MapperCorners ==
  \A k \in 1..Len(pointer) :
    LET m == pointer[k]
        c == ClientPoint(m.e)
    IN  /\ (c.clientX = m.rect.left /\ c.clientY = m.rect.top) =>
             m.at = [x |-> Num(0), y |-> Num(0)]
        /\ (c.clientX = RAdd(m.rect.left, m.rect.width)
            /\ c.clientY = RAdd(m.rect.top, m.rect.height)) =>
             m.at = [x |-> Num(maskCanvas.size.w), y |-> Num(maskCanvas.size.h)]

\* A touch went down on the bottom-right corner of a rectangle that is
\* offset, fractional and not of the native size, over a 1000x500 canvas.
C18_Witness ==
  /\ Len(pointer) = 1
  /\ ev = "down"
  /\ pointer[1].e.kind = "touch"
  /\ pointer[1].rect.width = Rat(667, 2)
  /\ ClientPoint(pointer[1].e).clientX = Num(654)
  /\ ClientPoint(pointer[1].e).clientY = Num(19)
  /\ pointer[1].at = [x |-> Num(1000), y |-> Num(500)]

\* C15: the image payload of a background-replace or enhance request is
\* the base display surface with the logo baked in, the raster the
\* download exports (taken once every image load has run).
C15_PayloadIsDisplaySurface ==
  [][(ev' = "editAccepted" /\ mode \in {CHANGE_BACKGROUND, MAKE_HD} /\ loads = <<>>) =>
       LET r == requests'[Len(requests')] IN
         /\ r.payload.size = DownloadRaster.size
         /\ r.payload.img = DownloadRaster.img
         /\ r.payload.logos = DownloadRaster.logos]_vars

(***************************************************************************)
(* Properties of strokes                                                   *)
(***************************************************************************)
\* C21: a pointer-move renders a segment into the Mask Buffer only if a
\* pointer-down in erase mode has pushed a snapshot since the most recent
\* pointer-up, pointer-leave, clear or mode change; a pointer-move in Idle
\* leaves the buffer, the history and the has-content flag unchanged.
C21_SegmentsBelongToStroke ==
  [][(ev' \in {"move", "moveIgnored"}) =>
       /\ ev' = "move" => strokeBegun
       /\ ~isDrawing => UNCHANGED <<maskCanvas, maskHistory, hasMask>>]_vars

\* C22: after a completed stroke (pointer-down, one or more moves,
\* pointer-up) a single undo returns the Mask Buffer to the state it had
\* just before that stroke, the snapshot its pointer-down pushed, however
\* many strokes came before.
C22_UndoRevertsLastStroke ==
  [][(ev = "up" /\ ev' = "undo") =>
       maskCanvas'.px = maskHistory[Len(maskHistory)].px]_vars

\* C23: in erase mode a pointer-down followed at once by a pointer-up
\* pushes exactly one snapshot (the buffer as it is) and changes neither
\* the Mask Buffer nor the has-content flag; the Stroke Engine ends Idle.
C23_TapPushesOneSnapshot ==
  /\ [][(ev' = "down") =>
          /\ Len(maskHistory') = Min(Len(maskHistory) + 1, HistoryLimit)
          /\ SubSeq(maskHistory', 1, Len(maskHistory') - 1)
               = LastN(maskHistory, Len(maskHistory') - 1)
          /\ UNCHANGED <<maskCanvas, hasMask>>]_vars
  /\ [][(ev = "down" /\ ev' = "up") =>
          /\ ~isDrawing'
          /\ UNCHANGED <<maskHistory, maskCanvas, hasMask>>]_vars

\* A pointer went down and up on an empty buffer: a snapshot is held, the
\* buffer and the flag are as they were, the Stroke Engine is Idle.
C23_Witness ==
  /\ ev = "up" /\ ~isDrawing /\ mode = REMOVE_OBJECT
  /\ Len(maskHistory) >= 1
  /\ maskHistory[Len(maskHistory)] = GetImageData(maskCanvas)
  /\ ~hasMask /\ maskCanvas.px = {}

(***************************************************************************)
(* Properties of the display surface                                       *)
(***************************************************************************)
\* C24: once every pending image-load callback has run, the base display
\* surface shows the current Image Surface at its size, with the logo
\* drawn exactly once at the current Logo Placement, or with no logo when
\* none is loaded.
C24_SurfaceAfterLoads ==
  (loads = <<>> /\ currentImageUrl # Null) =>
    /\ canvas.img = currentImageUrl
    /\ canvas.size = ImageSize(currentImageUrl)
    /\ canvas.logos =
         IF logoState.previewUrl = Null
         THEN <<>>
         ELSE <<[src |-> logoState.previewUrl,
                 rect |-> LogoRect(ImageSize(currentImageUrl),
                                   LogoSize(logoState.previewUrl), logoState)]>>

\* C25: in every reachable state the Mask Buffer has the width and height
\* of the base display surface; the step in which a base image load sizes
\* the display surface sizes the Mask Buffer too and leaves it without a
\* marked pixel.
C25_MaskSizedAsSurface ==
  /\ [](maskCanvas.size = canvas.size)
  /\ [][(ev' = "baseLoaded") =>
          /\ maskCanvas'.size = canvas'.size
          /\ maskCanvas'.px = {}]_vars

\* The result of an edit, wider than the upload, has just loaded: both
\* canvases have its size and the Mask Buffer is clear.
C25_Witness ==
  /\ ev = "baseLoaded"
  /\ canvas.img \in Results
  /\ canvas.size = [w |-> 200, h |-> 100]
  /\ maskCanvas = Resized(canvas.size)

(***************************************************************************)
(* Properties of the Logo Placement                                        *)
(***************************************************************************)
\* The steps of the operations that are to leave the Logo Placement alone:
\* mode change, stroke, undo, clear, edit submission, edit completion.
KeepsLogoPlacement ==
  {"mode", "down", "downIgnored", "move", "moveIgnored", "up", "upIgnored",
   "undo", "undoNoop", "clear", "editDisabled", "editRejected", "editAccepted",
   "fetched", "fetchFailed", "serviceFailed", "serviceResolved"}

\* C26: the logo source is absent after Remove Logo, after reset and after
\* a new base image is uploaded, which also puts the placement back to
\* x = 50, y = 50, scale = 20; mode change, stroke, undo, clear, edit
\* submission and edit completion leave the Logo Placement as it is.
C26_LogoLifecycle ==
  [][/\ ev' \in {"removeLogo", "reset", "upload"} => logoState'.previewUrl = Null
     /\ ev' = "upload" =>
          logoState'.x = 50 /\ logoState'.y = 50 /\ logoState'.scale = 20
     /\ ev' \in KeepsLogoPlacement => logoState' = logoState]_vars

\* An edit has completed on a session with a logo moved to the right edge:
\* the logo and its placement are still there.
C26_Witness ==
  /\ ev = "serviceResolved"
  /\ logoState.previewUrl \in LogoFiles
  /\ logoState.x = 100

\* The steps of strokes, undo and clear.
MaskSteps ==
  {"down", "downIgnored", "move", "moveIgnored", "up", "upIgnored",
   "undo", "undoNoop", "clear"}

\* C27: no step of a stroke, an undo or a clear changes the base display
\* surface, and what the download exports does not change with the Mask
\* Buffer: it is the base surface alone.
C27_MaskNotBaked ==
  [][(ev' \in MaskSteps) =>
       /\ canvas' = canvas
       /\ DownloadRaster' = DownloadRaster]_vars

\* A segment has just been drawn over a loaded image that carries a logo:
\* the Mask Buffer has marked pixels, the base surface shows the image and
\* the logo.
C27_Witness ==
  /\ ev = "move"
  /\ maskCanvas.px # {}
  /\ canvas.img = currentImageUrl /\ canvas.img \in Files
  /\ Len(canvas.logos) = 1
  /\ DownloadRaster.logos = canvas.logos

(***************************************************************************)
(* Properties of the has-content flag                                      *)
(***************************************************************************)
\* C28: in every reachable state, if the has-content flag is true the Mask
\* Buffer holds at least one marked pixel, and the composite of every
\* accepted erase request carries at least one marked pixel.
C28_FlagImpliesMarks ==
  /\ hasMask => maskCanvas.px # {}
  /\ \A i \in 1..Len(requests) :
       requests[i].payload.kind = "composite" => requests[i].payload.mask # {}

(***************************************************************************)
(* Properties of an edit that is overtaken                                 *)
(***************************************************************************)
\* C29: when an image was uploaded or the session reset while an edit
\* request was outstanding, the completion of that request leaves the
\* Image Surface, the mode and the prompt text as they are.
C29_OvertakenEditDropped ==
  [][(outdated /\ ev' = "serviceResolved") =>
       /\ currentImageUrl' = currentImageUrl
       /\ mode' = mode
       /\ promptInput' = promptInput]_vars

(***************************************************************************)
(* Properties of the mask across tools                                     *)
(***************************************************************************)
\* C30: a mode change, a logo upload, a placement slider and Remove Logo,
\* together with the image loads that a change of the Logo Placement
\* starts, leave the Mask Buffer, the Mask History and the has-content
\* flag unchanged.
C30_MaskSurvivesTools ==
  [][(\/ ev' \in {"mode", "logoUpload", "slider", "removeLogo"}
      \/ /\ ev' \in {"baseLoaded", "logoLoaded"}
         /\ \A i \in 1..Len(loads) : loads[i].dep = "logoState") =>
       UNCHANGED <<maskCanvas, maskHistory, hasMask>>]_vars

====
